---------------------------- MODULE Spec2Model ----------------------------
(***************************************************************************)
(* A model of the COVID-19 hospitalization dashboard (src/main.py).        *)
(*                                                                         *)
(* Text is modelled as a sequence of one-character strings over printable  *)
(* ASCII, so that the string operations of the code (strip, lower,         *)
(* replace, zfill, the strptime parse, the substring test, sorting) are    *)
(* computed character by character.  A DataFrame is a record               *)
(*     [columns |-> <<name, ...>>, rows |-> <<[index, cells], ...>>]       *)
(* whose cells are positional, one per column.  A cell is a tagged value:  *)
(* text, an int64, a float64 (held in tenths), NaN, a Timestamp (held as   *)
(* the number yyyymmdd) or NaT.                                            *)
(***************************************************************************)
EXTENDS Integers, Sequences, FiniteSets, TLC

VARIABLES
    fn,             \* the function a pure-function specification has applied
    arg,            \* its arguments
    ret,            \* what it returned (or raised)
    ret2,           \* what it returned when applied to its own result
    remote,         \* how DATA_URL answers at present
    cache,          \* the st.cache_data entry of fetch_remote_data
    session_state,  \* st.session_state of the browser session
    date_slider,    \* the value the date-range slider holds
    loaded,         \* what get_data returned to the last script run
    view            \* what the last script run put on the page

\* the state of the dashboard, which the specifications of the single
\* functions leave alone
dashboard == <<remote, cache, session_state, date_slider, loaded, view>>

vars == <<fn, arg, ret, ret2, dashboard>>

None == [t |-> "None"]

----------------------------------------------------------------------------
(* Text *)

\* Printable ASCII in code point order, 32 to 126 (four characters that TLA+
\* strings cannot hold directly are spelled out).
ASCII ==
    << " ", "!", "QUOTE", "#", "$", "%", "&", "APOSTROPHE", "(", ")", "*", "+", ",", "-",
       ".", "/", "0", "1", "2", "3", "4", "5", "6", "7", "8", "9", ":", ";",
       "<", "=", ">", "?", "@", "A", "B", "C", "D", "E", "F", "G", "H", "I",
       "J", "K", "L", "M", "N", "O", "P", "Q", "R", "S", "T", "U", "V", "W",
       "X", "Y", "Z", "[", "BACKSLASH", "]", "^", "_", "BACKTICK", "a", "b", "c", "d", "e",
       "f", "g", "h", "i", "j", "k", "l", "m", "n", "o", "p", "q", "r", "s",
       "t", "u", "v", "w", "x", "y", "z", "{", "|", "}", "~" >>

Ord == [c \in {ASCII[i] : i \in 1..Len(ASCII)} |->
            31 + (CHOOSE i \in 1..Len(ASCII) : ASCII[i] = c)]

Chr(n) == ASCII[n - 31]

IsDigit(c) == Ord[c] \in 48..57

DigitVal(c) == Ord[c] - 48

AllDigits(s) == \A i \in 1..Len(s) : IsDigit(s[i])

\* str.lower() of one character
LowerChar(c) == IF Ord[c] \in 65..90 THEN Chr(Ord[c] + 32) ELSE c

RECURSIVE LStrip(_)
LStrip(s) == IF s # <<>> /\ Head(s) = " " THEN LStrip(Tail(s)) ELSE s

RECURSIVE RStrip(_)
RStrip(s) ==
    IF s # <<>> /\ s[Len(s)] = " " THEN RStrip(SubSeq(s, 1, Len(s) - 1)) ELSE s

\* str.strip()
str_strip(s) == RStrip(LStrip(s))

\* str.lower()
str_lower(s) == [i \in 1..Len(s) |-> LowerChar(s[i])]

\* str.replace(" ", "_")
str_replace_space(s) == [i \in 1..Len(s) |-> IF s[i] = " " THEN "_" ELSE s[i]]

\* the decimal digits of a natural number
RECURSIVE NatToStr(_)
NatToStr(n) ==
    IF n < 10 THEN <<Chr(48 + n)>> ELSE NatToStr(n \div 10) \o <<Chr(48 + (n % 10))>>

\* the number a digit string denotes
RECURSIVE StrToNat(_)
StrToNat(s) ==
    IF s = <<>> THEN 0
    ELSE 10 * StrToNat(SubSeq(s, 1, Len(s) - 1)) + DigitVal(s[Len(s)])

\* lexicographic order by code point, the order of sorted() on str
RECURSIVE StrLess(_, _)
StrLess(a, b) ==
    IF b = <<>> THEN FALSE
    ELSE IF a = <<>> THEN TRUE
    ELSE IF Ord[Head(a)] # Ord[Head(b)] THEN Ord[Head(a)] < Ord[Head(b)]
    ELSE StrLess(Tail(a), Tail(b))

\* `sub in s` / str.contains for a pattern with no regex metacharacter
Contains(s, sub) ==
    \E i \in 0..(Len(s) - Len(sub)) : SubSeq(s, i + 1, i + Len(sub)) = sub

----------------------------------------------------------------------------
(* Cells and frames *)

StrCell(s) == [t |-> "str", v |-> s]
IntCell(n) == [t |-> "int", v |-> n]
FloatCell(tenths) == [t |-> "float", v |-> tenths]
NaN == [t |-> "NaN"]
NaT == [t |-> "NaT"]
Timestamp(y, m, d) == [t |-> "Timestamp", v |-> y * 10000 + m * 100 + d]

IsNull(c) == c.t \in {"NaN", "NaT"}

\* no browser session: the dashboard is not running
NoSession ==
    /\ remote = "data set"
    /\ cache = [present |-> FALSE]
    /\ session_state = <<>>
    /\ date_slider = None
    /\ loaded = None
    /\ view = None

Raise(kind) == [raised |-> kind]
Raised(x) == "raised" \in DOMAIN x

ColumnIndexes(columns, name) == {i \in 1..Len(columns) : columns[i] = name}

HasColumn(df, name) == ColumnIndexes(df.columns, name) # {}

\* the cell of row r in the (first) column called name
Cell(df, r, name) ==
    r.cells[CHOOSE i \in ColumnIndexes(df.columns, name) :
                \A j \in ColumnIndexes(df.columns, name) : i <= j]

\* df[name] = f(row): overwrites the column where it exists, appends it otherwise
SetColumn(df, name, f(_)) ==
    IF HasColumn(df, name)
    THEN [df EXCEPT !.rows =
            [k \in 1..Len(df.rows) |->
                [df.rows[k] EXCEPT !.cells =
                    [i \in 1..Len(df.columns) |->
                        IF df.columns[i] = name THEN f(df.rows[k])
                        ELSE df.rows[k].cells[i]]]]]
    ELSE [columns |-> Append(df.columns, name),
          rows |-> [k \in 1..Len(df.rows) |->
                        [df.rows[k] EXCEPT !.cells = Append(@, f(df.rows[k]))]]]

\* df.dropna(subset=[name])
dropna(df, name) ==
    LET NotNull(r) == \A i \in ColumnIndexes(df.columns, name) : ~IsNull(r.cells[i])
    IN  [df EXCEPT !.rows = SelectSeq(df.rows, NotNull)]

Empty(df) == df.rows = <<>> \/ df.columns = <<>>

----------------------------------------------------------------------------
(* Column names and constants of the program *)

COL_yearmonth == <<"_", "y", "e", "a", "r", "m", "o", "n", "t", "h">>
COL_date == <<"d", "a", "t", "e">>
COL_rate == <<"h", "o", "s", "p", "i", "t", "a", "l", "i", "z", "a", "t", "i", "o", "n", "_", "r", "a", "t", "e">>
COL_state == <<"s", "t", "a", "t", "e">>
COL_sex == <<"s", "e", "x", "_", "l", "a", "b", "e", "l">>
COL_race == <<"r", "a", "c", "e", "_", "l", "a", "b", "e", "l">>
COL_age == <<"a", "g", "e", "c", "a", "t", "e", "g", "o", "r", "y", "_", "l", "e", "g", "e", "n", "d">>
COL_type == <<"t", "y", "p", "e">>

COLUMN_RENAME_MAP == [c \in {<<"m", "o", "n", "t", "h", "l", "y", "r", "a", "t", "e">>} |-> COL_rate]

----------------------------------------------------------------------------
(* preprocess *)

\* [c.strip().lower().replace(" ", "_") for c in cleaned.columns]
NormalizeColumn(c) == str_replace_space(str_lower(str_strip(c)))

\* cleaned.rename(columns=COLUMN_RENAME_MAP), for one name
rename(c) == IF c \in DOMAIN COLUMN_RENAME_MAP THEN COLUMN_RENAME_MAP[c] ELSE c

\* Series.astype(str), for one cell: str() of an int, repr of a float with one
\* decimal digit, "nan" for a missing value; text is left as it is
astype_str(c) ==
    CASE c.t = "str" -> c.v
      [] c.t = "int" -> NatToStr(c.v)
      [] c.t = "float" -> NatToStr(c.v \div 10) \o <<".">> \o NatToStr(c.v % 10)
      [] c.t \in {"NaN", "NaT"} -> IF c.t = "NaN" THEN <<"n", "a", "n">> ELSE <<"N", "a", "T">>
      [] c.t = "Timestamp" ->
            NatToStr(c.v \div 10000) \o <<"-">>
            \o <<Chr(48 + ((c.v \div 1000) % 10)), Chr(48 + ((c.v \div 100) % 10))>>
            \o <<"-">>
            \o <<Chr(48 + ((c.v \div 10) % 10)), Chr(48 + (c.v % 10))>>

\* (mutant) the trailing ".0" is left in place
str_replace_nothing(s) == s

\* .str.replace(r"\.0$", "", regex=True)
str_replace_dot0(s) ==
    IF Len(s) >= 2 /\ s[Len(s) - 1] = "." /\ s[Len(s)] = "0"
    THEN SubSeq(s, 1, Len(s) - 2)
    ELSE s

\* .str.zfill(width): zeros on the left, after a leading sign
str_zfill(s, width) ==
    LET zeros == [i \in 1..(width - Len(s)) |-> "0"]
    IN  IF Len(s) >= width THEN s
        ELSE IF s # <<>> /\ Head(s) \in {"+", "-"} THEN <<Head(s)>> \o zeros \o Tail(s)
        ELSE zeros \o s

\* the new value of a _yearmonth cell
CleanYearMonth(c) == StrCell(str_zfill(str_replace_dot0(astype_str(c)), 6))

DaysInMonth(y, m) ==
    IF m \in {4, 6, 9, 11} THEN 30
    ELSE IF m # 2 THEN 31
    ELSE IF (y % 4 = 0 /\ y % 100 # 0) \/ y % 400 = 0 THEN 29
    ELSE 28

\* pd.to_datetime(s, format="%Y%m%d", errors="coerce"), for one text: the whole
\* text must match, four digits of year, two of month, two of day; a date that
\* does not exist, or one outside what a nanosecond Timestamp holds
\* (1677-09-21 to 2262-04-11), gives NaT
to_datetime(s) ==
    IF Len(s) = 8 /\ AllDigits(s)
    THEN LET y == StrToNat(SubSeq(s, 1, 4))
             m == StrToNat(SubSeq(s, 5, 6))
             d == StrToNat(SubSeq(s, 7, 8))
             v == y * 10000 + m * 100 + d
         IN  IF /\ m \in 1..12
                /\ d >= 1
                /\ d <= DaysInMonth(y, m)
                /\ v >= 16770922
                /\ v <= 22620411
             THEN Timestamp(y, m, d)
             ELSE NaT
    ELSE NaT

\* pd.to_numeric(c, errors="coerce"), for one cell: a number stays, text that
\* reads as digits, or digits "." digit, becomes that number, anything else NaN
to_numeric(c) ==
    CASE c.t = "int" -> FloatCell(c.v * 10)
      [] c.t = "float" -> c
      [] c.t = "str" ->
            LET s == c.v
                n == Len(s)
            IN  IF n >= 1 /\ AllDigits(s) THEN FloatCell(StrToNat(s) * 10)
                ELSE IF /\ n >= 3
                        /\ s[n - 1] = "."
                        /\ AllDigits(SubSeq(s, 1, n - 2))
                        /\ IsDigit(s[n])
                     THEN FloatCell(StrToNat(SubSeq(s, 1, n - 2)) * 10 + DigitVal(s[n]))
                     ELSE NaN
      [] OTHER -> NaN

\* (mutant) the parsed dates are added as a new column even where the frame
\* already has a date column
WithDateAppended(cleaned) ==
    LET Parsed(r) == to_datetime(Cell(cleaned, r, COL_yearmonth).v \o <<"0", "1">>)
    IN  [columns |-> Append(cleaned.columns, COL_date),
         rows |-> [k \in 1..Len(cleaned.rows) |->
                    [cleaned.rows[k] EXCEPT !.cells = Append(@, Parsed(cleaned.rows[k]))]]]

\* cleaned["date"] = pd.to_datetime(cleaned["_yearmonth"] + "01", ...)
WithDate(cleaned) ==
    LET Parsed(r) == to_datetime(Cell(cleaned, r, COL_yearmonth).v \o <<"0", "1">>)
    IN  SetColumn(cleaned, COL_date, Parsed)

preprocess(df) ==
    LET renamed == [df EXCEPT !.columns =
                        [i \in 1..Len(df.columns) |-> rename(NormalizeColumn(df.columns[i]))]]
        Cleaned(r) == CleanYearMonth(Cell(renamed, r, COL_yearmonth))
        dated == dropna(WithDate(SetColumn(renamed, COL_yearmonth, Cleaned)), COL_date)
        Numeric(r) == to_numeric(Cell(dated, r, COL_rate))
    IN  IF ~HasColumn(renamed, COL_yearmonth) THEN Raise("KeyError")
        ELSE IF Cardinality(ColumnIndexes(renamed.columns, COL_yearmonth)) > 1
             THEN Raise("AttributeError")
        ELSE IF ~HasColumn(dated, COL_rate) THEN dated
        ELSE IF Cardinality(ColumnIndexes(dated.columns, COL_rate)) > 1
             THEN Raise("TypeError")
        ELSE dropna(SetColumn(dated, COL_rate, Numeric), COL_rate)

----------------------------------------------------------------------------
(* The raw inputs of preprocess: a header and up to MaxRawRows rows.  The   *)
(* first column of every header holds the year-month code, the others hold *)
(* the rate.                                                               *)

MaxRawRows == 2

RawHeaders ==
    { <<<<"_", "y", "e", "a", "r", "m", "o", "n", "t", "h">>, <<"M", "o", "n", "t", "h", "l", "y", "R", "a", "t", "e">>>>,
      <<<<" ", "_", "Y", "e", "a", "r", "M", "o", "n", "t", "h", " ">>, <<"h", "o", "s", "p", "i", "t", "a", "l", "i", "z", "a", "t", "i", "o", "n", "_", "r", "a", "t", "e">>>>,
      <<<<"_", "y", "e", "a", "r", "m", "o", "n", "t", "h">>, <<"M", "o", "n", "t", "h", "l", "y", " ", "R", "a", "t", "e">>>>,
      <<<<"Y", "e", "a", "r", "M", "o", "n", "t", "h">>, <<"m", "o", "n", "t", "h", "l", "y", "r", "a", "t", "e">>>>,
      <<<<"_", "y", "e", "a", "r", "m", "o", "n", "t", "h">>, <<"M", "o", "n", "t", "h", "l", "y", "R", "a", "t", "e">>, <<"H", "o", "s", "p", "i", "t", "a", "l", "i", "z", "a", "t", "i", "o", "n", "_", "R", "a", "t", "e">>>> }

RawCodes ==
    { IntCell(202112), FloatCell(2022030), StrCell(<<"2", "0", "2", "2", "0", "2", ".", "0">>),
      StrCell(<<"2", "0", "2", "2", "1", "3">>), StrCell(<<"2", "2", "0", "2">>), NaN }

RawRates == { IntCell(7), StrCell(<<"7", ".", "5">>), StrCell(<<"N", "/", "A">>), NaN }

\* the frame with header h and the given codes and rates, indexed 0..n-1 as
\* read_csv does
RawFrame(h, codes, rates) ==
    [columns |-> h,
     rows |-> [k \in 1..Len(codes) |->
                [index |-> k - 1,
                 cells |-> [i \in 1..Len(h) |-> IF i = 1 THEN codes[k] ELSE rates[k]]]]]

InitPreprocess ==
    /\ fn = "none"
    /\ \E h \in RawHeaders, n \in 0..MaxRawRows :
            \E codes \in [1..n -> RawCodes], rates \in [1..n -> RawRates] :
                arg = [df |-> RawFrame(h, codes, rates)]
    /\ ret = None
    /\ ret2 = None
    /\ NoSession

CallPreprocess ==
    /\ fn = "none"
    /\ fn' = "preprocess"
    /\ ret' = preprocess(arg.df)
    /\ UNCHANGED <<arg, ret2, dashboard>>

\* preprocess applied to a frame preprocess returned
CallPreprocessAgain ==
    /\ fn = "preprocess"
    /\ ~Raised(ret)
    /\ fn' = "preprocess(preprocess)"
    /\ ret2' = preprocess(ret)
    /\ UNCHANGED <<arg, ret, dashboard>>

NextPreprocess == CallPreprocess \/ CallPreprocessAgain

SpecPreprocess == InitPreprocess /\ [][NextPreprocess]_vars

----------------------------------------------------------------------------
(* Claims about preprocess *)

\* The year-month a raw code cell denotes, as the number yyyymm: an integer, a
\* float with no fraction, or text of at most six digits with an optional
\* trailing ".0"; -1 where the cell denotes none.
YearMonthOf(c) ==
    CASE c.t = "int" -> IF c.v < 1000000 THEN c.v ELSE -1
      [] c.t = "float" -> IF c.v % 10 = 0 /\ c.v < 10000000 THEN c.v \div 10 ELSE -1
      [] c.t = "str" ->
            LET n == Len(c.v)
                digits == IF n >= 2 /\ SubSeq(c.v, n - 1, n) = <<".", "0">>
                          THEN SubSeq(c.v, 1, n - 2) ELSE c.v
            IN  IF Len(digits) <= 6 /\ \A i \in 1..Len(digits) : digits[i] \in
                        {"0", "1", "2", "3", "4", "5", "6", "7", "8", "9"}
                THEN StrToNat(digits)
                ELSE -1
      [] OTHER -> -1

\* yyyymm names a month whose first day a Timestamp can hold
ValidYYYYMM(n) == (n % 100) \in 1..12 /\ n >= 167710 /\ n <= 226204

\* the cell holds a number, or text that reads as one
CoercesToNumber(c) ==
    \/ c.t \in {"int", "float"}
    \/ /\ c.t = "str"
       /\ \E whole \in 1..Len(c.v) :
            /\ \A i \in 1..whole : c.v[i] \in {"0", "1", "2", "3", "4", "5", "6", "7", "8", "9"}
            /\ \/ whole = Len(c.v)
               \/ /\ Len(c.v) = whole + 2
                  /\ c.v[whole + 1] = "."
                  /\ c.v[whole + 2] \in {"0", "1", "2", "3", "4", "5", "6", "7", "8", "9"}

\* the columns of a raw frame that preprocess reads as the code and as the rate
CodeColumns(df) ==
    {i \in 1..Len(df.columns) : NormalizeColumn(df.columns[i]) = COL_yearmonth}
RateColumns(df) ==
    {i \in 1..Len(df.columns) :
        NormalizeColumn(df.columns[i]) \in {COL_rate, <<"m", "o", "n", "t", "h", "l", "y", "r", "a", "t", "e">>}}

\* the index labels of the rows of a frame, in order
Indexes(rows) == [k \in 1..Len(rows) |-> rows[k].index]

\* the rows of raw frame df the claim says are kept: a valid code and, where
\* withRate, a rate that coerces
KeptRows(df, withRate) ==
    LET Keep(r) ==
            /\ \E i \in CodeColumns(df) : ValidYYYYMM(YearMonthOf(r.cells[i]))
            /\ withRate => \E i \in RateColumns(df) : CoercesToNumber(r.cells[i])
    IN  SelectSeq(df.rows, Keep)

\* every row of the output has a non-null date, the first day of the month its
\* input row names, and (where the output has a rate) a non-null numeric rate
OutputComplete(df, out) ==
    \A k \in 1..Len(out.rows) :
        LET r == out.rows[k]
            src == CHOOSE x \in {df.rows[j] : j \in 1..Len(df.rows)} : x.index = r.index
            ym == YearMonthOf(src.cells[CHOOSE i \in CodeColumns(df) : TRUE])
        IN  /\ Cell(out, r, COL_date) = Timestamp(ym \div 100, ym % 100, 1)
            /\ HasColumn(out, COL_rate) => Cell(out, r, COL_rate).t = "float"

C4_PreprocessIdempotent ==
    fn = "preprocess(preprocess)" => ret2 = ret

\* a second pass over an output that the first pass had to change: renamed
\* columns, a cleaned code, a dropped row
C4_Witness ==
    /\ fn = "preprocess(preprocess)"
    /\ arg.df.columns # SubSeq(ret.columns, 1, Len(arg.df.columns))
    /\ Len(arg.df.rows) = 2
    /\ Len(ret.rows) = 1
    /\ Cell(ret, ret.rows[1], COL_yearmonth) # arg.df.rows[ret.rows[1].index + 1].cells[1]
    /\ ret2 = ret

----------------------------------------------------------------------------
(* apply_filters *)

\* Series.isin(vals), for one cell: a missing value is in no list
isin(c, vals) == c.t = "str" /\ c.v \in vals

\* the loop over selections.items(): items is the sequence of <<col, vals>>
\* pairs in the order the dict lists them
RECURSIVE FilterItems(_, _)
FilterItems(filtered, items) ==
    IF items = <<>> THEN filtered
    ELSE LET col == Head(items)[1]
             vals == Head(items)[2]
             Chosen(r) == isin(Cell(filtered, r, col), vals)
         IN  FilterItems(IF vals # {}
                         THEN [filtered EXCEPT !.rows = SelectSeq(filtered.rows, Chosen)]
                         ELSE filtered,
                         Tail(items))

\* (mutant) the upper bound of the date range is exclusive
apply_filters_exclusive(df, date_range, items) ==
    LET InRange(r) == /\ Cell(df, r, COL_date).t = "Timestamp"
                      /\ Cell(df, r, COL_date).v >= date_range[1]
                      /\ Cell(df, r, COL_date).v < date_range[2]
    IN  FilterItems([df EXCEPT !.rows = SelectSeq(df.rows, InRange)], items)

apply_filters(df, date_range, items) ==
    LET InRange(r) == /\ Cell(df, r, COL_date).t = "Timestamp"
                      /\ Cell(df, r, COL_date).v >= date_range[1]
                      /\ Cell(df, r, COL_date).v <= date_range[2]
    IN  FilterItems([df EXCEPT !.rows = SelectSeq(df.rows, InRange)], items)

----------------------------------------------------------------------------
(* The inputs of apply_filters: up to MaxFilterRows rows, each a date and   *)
(* one of a few profiles of the four categorical columns, a date range and *)
(* a selection.                                                            *)

MaxFilterRows == 2

\* the columns render_sidebar builds a selection for, in its order
FilterColumns == <<COL_state, COL_age, COL_sex, COL_race>>

FilterHeader == <<COL_date>> \o FilterColumns

FilterDates == {20220101, 20220201, 20220301}

FilterProfiles ==
    { <<StrCell(<<"C", "a", "l", "i", "f", "o", "r", "n", "i", "a">>), StrCell(<<"A", "l", "l">>), StrCell(<<"A", "l", "l">>), StrCell(<<"A", "l", "l">>)>>,
      <<StrCell(<<"N", "e", "w", " ", "Y", "o", "r", "k">>), StrCell(<<"0", "-", "1", "7", " ", "y", "r">>), StrCell(<<"F", "e", "m", "a", "l", "e">>), NaN>> }

\* what the user may have picked for each column
FilterChoices ==
    [c \in {FilterColumns[i] : i \in 1..4} |->
        CASE c = COL_state -> {{}, {<<"C", "a", "l", "i", "f", "o", "r", "n", "i", "a">>}, {<<"C", "a", "l", "i", "f", "o", "r", "n", "i", "a">>, <<"N", "e", "w", " ", "Y", "o", "r", "k">>}}
          [] c = COL_age -> {{}, {<<"0", "-", "1", "7", " ", "y", "r">>}}
          [] c = COL_sex -> {{}, {<<"A", "l", "l">>}}
          [] c = COL_race -> {{}, {<<"A", "l", "l">>, <<"W", "h", "i", "t", "e">>}}]

\* the orders in which a dict can list the keys of S
Orders(S) ==
    {o \in [1..Cardinality(S) -> S] : \A i, j \in 1..Cardinality(S) : o[i] = o[j] => i = j}

InitApplyFilters ==
    /\ fn = "none"
    /\ \E n \in 0..MaxFilterRows :
        \E dates \in [1..n -> FilterDates], profiles \in [1..n -> FilterProfiles] :
        \E lo \in FilterDates, hi \in FilterDates :
        \E states \in FilterChoices[COL_state], ages \in FilterChoices[COL_age],
           sexes \in FilterChoices[COL_sex], races \in FilterChoices[COL_race] :
            /\ lo <= hi
            /\ arg = [df |-> [columns |-> FilterHeader,
                              rows |-> [k \in 1..n |->
                                          [index |-> k - 1,
                                           cells |-> <<[t |-> "Timestamp", v |-> dates[k]]>>
                                                     \o profiles[k]]]],
                      date_range |-> <<lo, hi>>,
                      selections |->
                          [c \in {FilterColumns[i] : i \in 1..4} |->
                              CASE c = COL_state -> states
                                [] c = COL_age -> ages
                                [] c = COL_sex -> sexes
                                [] c = COL_race -> races]]
    /\ ret = None
    /\ ret2 = None
    /\ NoSession

\* apply_filters on a dict that lists the four columns in some order
CallApplyFilters ==
    /\ fn = "none"
    /\ fn' = "apply_filters"
    /\ \E order \in Orders(DOMAIN arg.selections) :
            ret' = apply_filters(arg.df, arg.date_range,
                                 [i \in 1..Len(order) |-> <<order[i], arg.selections[order[i]]>>])
    /\ UNCHANGED <<arg, ret2, dashboard>>

NextApplyFilters == CallApplyFilters

SpecApplyFilters == InitApplyFilters /\ [][NextApplyFilters]_vars

\* C2: for every dataset, inclusive date range and selection, in whatever
\* order the selection lists its columns, apply_filters returns exactly the
\* rows dated within the range whose value, for every column with a non-empty
\* selection, is one of the selected values; an empty selection removes no row.
C2_ApplyFiltersExact ==
    fn = "apply_filters" =>
        LET df == arg.df
            Wanted(r) ==
                /\ arg.date_range[1] <= Cell(df, r, COL_date).v
                /\ Cell(df, r, COL_date).v <= arg.date_range[2]
                /\ \A c \in DOMAIN arg.selections :
                        arg.selections[c] # {} =>
                            \E v \in arg.selections[c] : Cell(df, r, c) = StrCell(v)
        IN  /\ ret.columns = df.columns
            /\ ret.rows = SelectSeq(df.rows, Wanted)

\* a row dated at the upper bound is kept, another is removed by the state
\* selection, while the empty selections of age and race remove nothing
C2_Witness ==
    /\ fn = "apply_filters"
    /\ Len(arg.df.rows) = 2
    /\ arg.selections[COL_state] # {}
    /\ arg.selections[COL_age] = {}
    /\ arg.selections[COL_sex] # {}
    /\ arg.selections[COL_race] = {}
    /\ Indexes(ret.rows) = <<0>>
    /\ Cell(ret, ret.rows[1], COL_date).v = arg.date_range[2]
    /\ arg.date_range[1] < arg.date_range[2]
    /\ Cell(arg.df, arg.df.rows[2], COL_date).v = arg.date_range[1]
    /\ ~isin(Cell(arg.df, arg.df.rows[2], COL_state), arg.selections[COL_state])

----------------------------------------------------------------------------
(* restrict_initial_states *)

DEFAULT_STATES == <<<<"C", "O", "V", "I", "D", "-", "N", "E", "T">>, <<"N", "e", "w", " ", "Y", "o", "r", "k">>, <<"C", "a", "l", "i", "f", "o", "r", "n", "i", "a">>>>

\* sorted(S) for a set of texts
RECURSIVE sorted(_)
sorted(S) ==
    IF S = {} THEN <<>>
    ELSE LET least == CHOOSE x \in S : \A y \in S \ {x} : StrLess(x, y)
         IN  <<least>> \o sorted(S \ {least})

\* df[col].unique(), as a set of cells
unique(df, col) == {Cell(df, df.rows[k], col) : k \in 1..Len(df.rows)}

\* (mutant) the defaults are used only when all of them are in the data
restrict_initial_states_all(df, selections) ==
    IF COL_state \in DOMAIN selections /\ selections[COL_state] # {} THEN df
    ELSE IF Empty(df) THEN df
    ELSE LET states == unique(df, COL_state)
             Present(s) == StrCell(s) \in states
             chosen == IF \A i \in 1..Len(DEFAULT_STATES) : Present(DEFAULT_STATES[i])
                       THEN {DEFAULT_STATES[i] : i \in 1..Len(DEFAULT_STATES)}
                       ELSE LET all == sorted({c.v : c \in states})
                            IN  {all[i] : i \in 1..(IF Len(all) < 3 THEN Len(all) ELSE 3)}
             Chosen(r) == isin(Cell(df, r, COL_state), chosen)
         IN  [df EXCEPT !.rows = SelectSeq(df.rows, Chosen)]

restrict_initial_states(df, selections) ==
    IF COL_state \in DOMAIN selections /\ selections[COL_state] # {} THEN df
    ELSE IF Empty(df) THEN df
    ELSE LET states == unique(df, COL_state)
             Present(s) == StrCell(s) \in states
             available_defaults == SelectSeq(DEFAULT_STATES, Present)
         IN  IF /\ available_defaults = <<>>
                /\ Cardinality(states) > 1
                /\ \E c \in states : c.t # "str"
             THEN Raise("TypeError")      \* sorted() cannot order NaN and text
             ELSE IF available_defaults = <<>> /\ \A c \in states : c.t # "str"
             THEN df                      \* isin([nan]) keeps the rows without a state
             ELSE LET all == sorted({c.v : c \in {x \in states : x.t = "str"}})
                      chosen == IF available_defaults # <<>>
                                THEN {available_defaults[i] : i \in 1..Len(available_defaults)}
                                ELSE {all[i] : i \in 1..(IF Len(all) < 3 THEN Len(all) ELSE 3)}
                      Chosen(r) == isin(Cell(df, r, COL_state), chosen)
                  IN  [df EXCEPT !.rows = SelectSeq(df.rows, Chosen)]

----------------------------------------------------------------------------
(* The inputs of restrict_initial_states: up to MaxStateRows rows over the *)
(* three default labels and four other states, and a selection.            *)

MaxStateRows == 4

StateNames ==
    { <<"C", "O", "V", "I", "D", "-", "N", "E", "T">>, <<"N", "e", "w", " ", "Y", "o", "r", "k">>, <<"C", "a", "l", "i", "f", "o", "r", "n", "i", "a">>,
      <<"T", "e", "x", "a", "s">>, <<"A", "l", "a", "b", "a", "m", "a">>, <<"A", "l", "a", "s", "k", "a">>, <<"A", "r", "i", "z", "o", "n", "a">> }

\* a selection with no state, one with an explicit state, one without the key
StateSelections ==
    { [c \in {COL_state} |-> {}],
      [c \in {COL_state} |-> {<<"T", "e", "x", "a", "s">>}],
      [c \in {COL_sex} |-> {<<"A", "l", "l">>}] }

InitRestrict ==
    /\ fn = "none"
    /\ \E n \in 0..MaxStateRows :
        \E names \in [1..n -> StateNames], sel \in StateSelections :
            arg = [df |-> [columns |-> <<COL_state>>,
                           rows |-> [k \in 1..n |->
                                        [index |-> k - 1, cells |-> <<StrCell(names[k])>>]]],
                   selections |-> sel]
    /\ ret = None
    /\ ret2 = None
    /\ NoSession

CallRestrict ==
    /\ fn = "none"
    /\ fn' = "restrict_initial_states"
    /\ ret' = restrict_initial_states(arg.df, arg.selections)
    /\ UNCHANGED <<arg, ret2, dashboard>>

NextRestrict == CallRestrict

SpecRestrict == InitRestrict /\ [][NextRestrict]_vars

\* the states named in the rows of a frame
StatesOf(df) == {Cell(df, df.rows[k], COL_state).v : k \in 1..Len(df.rows)}

\* the first three (or fewer) of a set of names in sorted order: those with
\* fewer than three names of the set before them
FirstThree(S) == {s \in S : Cardinality({t \in S : StrLess(t, s)}) < 3}

Defaults == {DEFAULT_STATES[i] : i \in 1..Len(DEFAULT_STATES)}

NoStateSelected == COL_state \notin DOMAIN arg.selections \/ arg.selections[COL_state] = {}

\* the rows of df whose state is in S
RowsOf(df, S) ==
    LET In(r) == Cell(df, r, COL_state).v \in S
    IN  [df EXCEPT !.rows = SelectSeq(df.rows, In)]

----------------------------------------------------------------------------
(* canonical_slice *)

\* (mutant) the type must equal "Crude" instead of containing it
canonical_slice_exact(df) ==
    IF ~({COL_sex, COL_race, COL_age, COL_type}
            \subseteq {df.columns[i] : i \in 1..Len(df.columns)})
    THEN [df EXCEPT !.rows = <<>>]
    ELSE LET Canonical(r) ==
                /\ Cell(df, r, COL_sex) = StrCell(<<"A", "l", "l">>)
                /\ Cell(df, r, COL_race) = StrCell(<<"A", "l", "l">>)
                /\ Cell(df, r, COL_age) = StrCell(<<"A", "l", "l">>)
                /\ Cell(df, r, COL_type) = StrCell(<<"C", "r", "u", "d", "e">>)
         IN  [df EXCEPT !.rows = SelectSeq(df.rows, Canonical)]

canonical_slice(df) ==
    IF ~({COL_sex, COL_race, COL_age, COL_type}
            \subseteq {df.columns[i] : i \in 1..Len(df.columns)})
    THEN [df EXCEPT !.rows = <<>>]                          \* df.iloc[0:0]
    ELSE LET Canonical(r) ==
                /\ Cell(df, r, COL_sex) = StrCell(<<"A", "l", "l">>)
                /\ Cell(df, r, COL_race) = StrCell(<<"A", "l", "l">>)
                /\ Cell(df, r, COL_age) = StrCell(<<"A", "l", "l">>)
                /\ Cell(df, r, COL_type).t = "str"          \* na=False
                /\ Contains(Cell(df, r, COL_type).v, <<"C", "r", "u", "d", "e">>)
         IN  [df EXCEPT !.rows = SelectSeq(df.rows, Canonical)]

----------------------------------------------------------------------------
(* The inputs of canonical_slice: up to MaxSliceRows rows of the four      *)
(* columns it reads, under a header that has them all or lacks one.  The    *)
(* type column holds text, with missing entries.                           *)

MaxSliceRows == 2

SliceColumns == <<COL_sex, COL_race, COL_age, COL_type>>

\* the full header and the headers with one required column taken out
SliceHeaders ==
    {SliceColumns} \cup
    {SelectSeq(SliceColumns, LAMBDA c : c # gone) : gone \in {SliceColumns[i] : i \in 1..4}}

SliceValues ==
    [c \in {SliceColumns[i] : i \in 1..4} |->
        CASE c = COL_sex -> {StrCell(<<"A", "l", "l">>), StrCell(<<"F", "e", "m", "a", "l", "e">>)}
          [] c = COL_race -> {StrCell(<<"A", "l", "l">>), NaN}
          [] c = COL_age -> {StrCell(<<"A", "l", "l">>), StrCell(<<"0", "-", "1", "7", " ", "y", "r">>)}
          [] c = COL_type -> {StrCell(<<"C", "r", "u", "d", "e", " ", "R", "a", "t", "e">>), StrCell(<<"c", "r", "u", "d", "e", " ", "r", "a", "t", "e">>),
                              StrCell(<<"A", "g", "e", " ", "a", "d", "j", "u", "s", "t", "e", "d", " ", "R", "a", "t", "e">>), NaN}]

InitCanonical ==
    /\ fn = "none"
    /\ \E h \in SliceHeaders, n \in 0..MaxSliceRows :
        \E sexes \in [1..n -> SliceValues[COL_sex]], races \in [1..n -> SliceValues[COL_race]],
           ages \in [1..n -> SliceValues[COL_age]], types \in [1..n -> SliceValues[COL_type]] :
            arg = [df |-> [columns |-> h,
                           rows |-> [k \in 1..n |->
                                [index |-> k - 1,
                                 cells |-> [i \in 1..Len(h) |->
                                            CASE h[i] = COL_sex -> sexes[k]
                                              [] h[i] = COL_race -> races[k]
                                              [] h[i] = COL_age -> ages[k]
                                              [] h[i] = COL_type -> types[k]]]]]]
    /\ ret = None
    /\ ret2 = None
    /\ NoSession

CallCanonical ==
    /\ fn = "none"
    /\ fn' = "canonical_slice"
    /\ ret' = canonical_slice(arg.df)
    /\ UNCHANGED <<arg, ret2, dashboard>>

NextCanonical == CallCanonical

SpecCanonical == InitCanonical /\ [][NextCanonical]_vars

\* text t occurs in text s, letter for letter, at some offset
Occurs(t, s) ==
    \E off \in 0..Len(s) :
        /\ off + Len(t) <= Len(s)
        /\ \A i \in 1..Len(t) : s[off + i] = t[i]

\* the value of row r of df under column c, as text; <<>> for a missing
\* column or entry (no text of the model is empty)
TextOf(df, r, c) ==
    IF \E i \in 1..Len(df.columns) : df.columns[i] = c /\ r.cells[i].t = "str"
    THEN r.cells[CHOOSE i \in 1..Len(df.columns) : df.columns[i] = c].v
    ELSE <<>>

\* C6: canonical_slice returns exactly the rows whose age category, sex and
\* race are all "All" and whose type contains "Crude" (case-sensitive); it
\* returns an empty dataset, without failing, if any of the four columns is
\* absent; and it leaves its input as it was.
C6_CanonicalSliceExact ==
    /\ [](fn = "canonical_slice" =>
            LET df == arg.df
                required == Len(df.columns) = 4
                Wanted(r) ==
                    /\ required
                    /\ TextOf(df, r, COL_age) = <<"A", "l", "l">>
                    /\ TextOf(df, r, COL_sex) = <<"A", "l", "l">>
                    /\ TextOf(df, r, COL_race) = <<"A", "l", "l">>
                    /\ Occurs(<<"C", "r", "u", "d", "e">>, TextOf(df, r, COL_type))
            IN  /\ ~Raised(ret)
                /\ ret.columns = df.columns
                /\ ret.rows = SelectSeq(df.rows, Wanted))
    /\ [][arg' = arg]_vars

\* a full header with a canonical row typed "Crude Rate", kept, and a row
\* that is not canonical, removed
C6_Witness ==
    /\ fn = "canonical_slice"
    /\ Len(arg.df.columns) = 4
    /\ Len(arg.df.rows) = 2
    /\ Indexes(ret.rows) = <<1>>
    /\ Cell(ret, ret.rows[1], COL_type) = StrCell(<<"C", "r", "u", "d", "e", " ", "R", "a", "t", "e">>)
    /\ Cell(arg.df, arg.df.rows[1], COL_type) = StrCell(<<"c", "r", "u", "d", "e", " ", "r", "a", "t", "e">>)

----------------------------------------------------------------------------
(* The aggregations *)

\* the order groupby gives its keys: text by code point, dates by time
CellLess(a, b) == IF a.t = "str" THEN StrLess(a.v, b.v) ELSE a.v < b.v

\* lexicographic order of two key tuples of the same length
RECURSIVE KeyLess(_, _)
KeyLess(a, b) ==
    IF a = <<>> THEN FALSE
    ELSE IF Head(a) # Head(b) THEN CellLess(Head(a), Head(b))
    ELSE KeyLess(Tail(a), Tail(b))

RECURSIVE SortKeys(_)
SortKeys(K) ==
    IF K = {} THEN <<>>
    ELSE LET least == CHOOSE x \in K : \A y \in K \ {x} : KeyLess(x, y)
         IN  <<least>> \o SortKeys(K \ {least})

RECURSIVE Sum(_)
Sum(cells) == IF cells = <<>> THEN 0 ELSE Head(cells).v + Sum(Tail(cells))

RECURSIVE GCD(_, _)
GCD(a, b) == IF b = 0 THEN a ELSE GCD(b, a % b)

\* (mutant) the first value of the group stands for the group
first(cells) ==
    LET present == SelectSeq(cells, LAMBDA c : ~IsNull(c))
    IN  IF present = <<>> THEN NaN ELSE Head(present)

\* Series.mean(): the arithmetic mean of the values that are not missing,
\* held exactly, as v/over tenths where it is no whole number of tenths
mean(cells) ==
    LET present == SelectSeq(cells, LAMBDA c : ~IsNull(c))
        total == Sum(present)
        g == GCD(total, Len(present))
    IN  IF present = <<>> THEN NaN
        ELSE IF Len(present) \div g = 1 THEN FloatCell(total \div g)
        ELSE [t |-> "float", v |-> total \div g, over |-> Len(present) \div g]

\* df.groupby(keys, as_index=False)[value].mean(): one row per combination of
\* key values with no missing key, in key order, indexed 0, 1, ...
groupby_mean(df, keys, value) ==
    LET KeyOf(r) == [i \in 1..Len(keys) |-> Cell(df, r, keys[i])]
        Whole(r) == \A i \in 1..Len(keys) : ~IsNull(Cell(df, r, keys[i]))
        groups == SortKeys({KeyOf(df.rows[k]) : k \in {j \in 1..Len(df.rows) : Whole(df.rows[j])}})
        Values(key) ==
            LET members == SelectSeq(df.rows, LAMBDA r : KeyOf(r) = key)
            IN  [i \in 1..Len(members) |-> Cell(df, members[i], value)]
    IN  [columns |-> keys \o <<value>>,
         rows |-> [g \in 1..Len(groups) |->
                    [index |-> g - 1, cells |-> groups[g] \o <<mean(Values(groups[g]))>>]]]

\* df.sort_values(col): the rows in ascending order of col.  The default sort
\* is not stable, so rows that tie may come out in any order: the set of
\* the frames it may return
sort_values(df, col) ==
    LET n == Len(df.rows)
    IN  { [df EXCEPT !.rows = [i \in 1..n |-> df.rows[o[i]]]] :
            o \in { p \in Orders(1..n) :
                      \A i \in 1..(n - 1) :
                        ~CellLess(Cell(df, df.rows[p[i + 1]], col), Cell(df, df.rows[p[i]], col)) } }

\* the frames aggregate_for_time_series may return
aggregate_for_time_series(base_df) ==
    IF Empty(base_df) THEN {base_df}
    ELSE sort_values(groupby_mean(base_df, <<COL_state, COL_date>>, COL_rate), COL_date)

\* Series.max() of the date column: the latest date, NaT if there is none
max_date(df) ==
    LET dates == {c \in unique(df, COL_date) : ~IsNull(c)}
    IN  IF dates = {} THEN NaT ELSE CHOOSE d \in dates : \A e \in dates : e.v <= d.v

\* (mutant) the rows of every date are averaged, not only those of the latest
aggregate_for_map_all_dates(base_df) ==
    IF Empty(base_df) THEN base_df
    ELSE groupby_mean(base_df, <<COL_state>>, COL_rate)

aggregate_for_map(base_df) ==
    IF Empty(base_df) THEN base_df
    ELSE LET latest_date == max_date(base_df)
             AtLatest(r) == ~IsNull(latest_date) /\ Cell(base_df, r, COL_date) = latest_date
             latest == [base_df EXCEPT !.rows = SelectSeq(base_df.rows, AtLatest)]
         IN  IF Empty(latest) THEN latest
             ELSE groupby_mean(latest, <<COL_state>>, COL_rate)

----------------------------------------------------------------------------
(* The inputs of the aggregations: up to MaxAggRows rows of date, state and *)
(* rate.                                                                   *)

MaxAggRows == 3

AggHeader == <<COL_date, COL_state, COL_rate>>

AggDates == {20220101, 20220201}

AggStates == {<<"C", "a", "l", "i", "f", "o", "r", "n", "i", "a">>, <<"N", "e", "w", " ", "Y", "o", "r", "k">>}

\* rates 3.0, 5.0 and 7.0, in tenths
AggRates == {30, 50, 70}

AggRow(k, d, s, x) ==
    [index |-> k - 1,
     cells |-> <<[t |-> "Timestamp", v |-> d], StrCell(s), FloatCell(x)>>]

InitAggregate ==
    /\ fn = "none"
    /\ \E n \in 0..MaxAggRows :
        \E dates \in [1..n -> AggDates], states \in [1..n -> AggStates],
           rates \in [1..n -> AggRates] :
            arg = [base_df |-> [columns |-> AggHeader,
                                rows |-> [k \in 1..n |->
                                            AggRow(k, dates[k], states[k], rates[k])]]]
    /\ ret = None
    /\ ret2 = None
    /\ NoSession

CallTimeSeries ==
    /\ fn = "none"
    /\ fn' = "aggregate_for_time_series"
    /\ ret' \in aggregate_for_time_series(arg.base_df)
    /\ UNCHANGED <<arg, ret2, dashboard>>

CallMap ==
    /\ fn = "none"
    /\ fn' = "aggregate_for_map"
    /\ ret' = aggregate_for_map(arg.base_df)
    /\ UNCHANGED <<arg, ret2, dashboard>>

NextAggregate == CallTimeSeries \/ CallMap

SpecAggregate == InitAggregate /\ [][NextAggregate]_vars

\* the rate cells of the rows of df that satisfy Pick
RatesWhere(df, Pick(_)) ==
    LET members == SelectSeq(df.rows, Pick)
    IN  [i \in 1..Len(members) |-> Cell(df, members[i], COL_rate)]

\* cell c is the arithmetic mean of the cells of a non-empty sequence
IsMeanOf(c, cells) ==
    /\ c.t = "float"
    /\ cells # <<>>
    /\ c.v * Len(cells) = Sum(cells) * (IF "over" \in DOMAIN c THEN c.over ELSE 1)

\* C7: aggregate_for_map returns exactly one row per state that has a row at
\* the latest date of the whole input, carrying the mean rate of that state's
\* rows at that date; other states are absent; an empty input gives an empty
\* output.
C7_MapAtLatestDate ==
    fn = "aggregate_for_map" =>
        LET df == arg.base_df
            dates == {Cell(df, df.rows[k], COL_date).v : k \in 1..Len(df.rows)}
            latest == CHOOSE d \in dates : \A e \in dates : e <= d
            AtLatest(r) == Cell(df, r, COL_date).v = latest
            states == {Cell(df, r, COL_state) : r \in {df.rows[k] : k \in 1..Len(df.rows)}}
            reporting == {s \in states :
                            \E k \in 1..Len(df.rows) :
                                AtLatest(df.rows[k]) /\ Cell(df, df.rows[k], COL_state) = s}
        IN  IF df.rows = <<>> THEN ret.rows = <<>>
            ELSE /\ ret.columns = <<COL_state, COL_rate>>
                 /\ Len(ret.rows) = Cardinality(reporting)
                 /\ \A s \in reporting :
                        \E k \in 1..Len(ret.rows) :
                            /\ ret.rows[k].cells[1] = s
                            /\ IsMeanOf(ret.rows[k].cells[2],
                                        RatesWhere(df, LAMBDA r :
                                            AtLatest(r) /\ Cell(df, r, COL_state) = s))

\* the rows (CA, 2022-01, 5), (CA, 2022-02, 7), (NY, 2022-02, 3) give
\* (CA, 7), (NY, 3)
C7_Witness ==
    /\ fn = "aggregate_for_map"
    /\ arg.base_df.rows = << AggRow(1, 20220101, <<"C", "a", "l", "i", "f", "o", "r", "n", "i", "a">>, 50),
                             AggRow(2, 20220201, <<"C", "a", "l", "i", "f", "o", "r", "n", "i", "a">>, 70),
                             AggRow(3, 20220201, <<"N", "e", "w", " ", "Y", "o", "r", "k">>, 30) >>
    /\ [k \in 1..Len(ret.rows) |-> ret.rows[k].cells]
            = << <<StrCell(<<"C", "a", "l", "i", "f", "o", "r", "n", "i", "a">>), FloatCell(70)>>,
                 <<StrCell(<<"N", "e", "w", " ", "Y", "o", "r", "k">>), FloatCell(30)>> >>

\* C8: aggregate_for_time_series returns exactly one point per (state, date)
\* pair of the input, whose rate is the arithmetic mean of the rates of the
\* rows of that pair, the points in ascending order of date; an empty input
\* gives an empty output and no error.
C8_TimeSeriesMeans ==
    fn = "aggregate_for_time_series" =>
        LET df == arg.base_df
            pairs == {<<Cell(df, df.rows[k], COL_state), Cell(df, df.rows[k], COL_date)>> :
                        k \in 1..Len(df.rows)}
        IN  /\ ~Raised(ret)
            /\ IF df.rows = <<>> THEN ret.rows = <<>>
               ELSE /\ ret.columns = <<COL_state, COL_date, COL_rate>>
                    /\ Len(ret.rows) = Cardinality(pairs)
                    /\ \A p \in pairs :
                        \E k \in 1..Len(ret.rows) :
                            /\ ret.rows[k].cells[1] = p[1]
                            /\ ret.rows[k].cells[2] = p[2]
                            /\ IsMeanOf(ret.rows[k].cells[3],
                                        RatesWhere(df, LAMBDA r :
                                            /\ Cell(df, r, COL_state) = p[1]
                                            /\ Cell(df, r, COL_date) = p[2]))
                    /\ \A k \in 1..(Len(ret.rows) - 1) :
                        ret.rows[k].cells[2].v <= ret.rows[k + 1].cells[2].v

\* two rows of one (state, date) pair are averaged (5 and 7 give 6) and the
\* point of the earlier date, second in group order, comes first
C8_Witness ==
    /\ fn = "aggregate_for_time_series"
    /\ arg.base_df.rows = << AggRow(1, 20220201, <<"C", "a", "l", "i", "f", "o", "r", "n", "i", "a">>, 50),
                             AggRow(2, 20220201, <<"C", "a", "l", "i", "f", "o", "r", "n", "i", "a">>, 70),
                             AggRow(3, 20220101, <<"N", "e", "w", " ", "Y", "o", "r", "k">>, 30) >>
    /\ ret.rows = << [index |-> 1,
                      cells |-> <<StrCell(<<"N", "e", "w", " ", "Y", "o", "r", "k">>), [t |-> "Timestamp", v |-> 20220101],
                                  FloatCell(30)>>],
                     [index |-> 0,
                      cells |-> <<StrCell(<<"C", "a", "l", "i", "f", "o", "r", "n", "i", "a">>), [t |-> "Timestamp", v |-> 20220201],
                                  FloatCell(60)>>] >>

----------------------------------------------------------------------------
(* The rendering stages.  A stage returns what it showed: an st.info        *)
(* message, or a chart or table, with the number of rows of the frame it    *)
(* handed to the charting or table collaborator.                           *)

STATE_ABBR ==
       (<<"A", "l", "a", "b", "a", "m", "a">> :> <<"A", "L">>)
    @@ (<<"A", "l", "a", "s", "k", "a">> :> <<"A", "K">>)
    @@ (<<"A", "r", "i", "z", "o", "n", "a">> :> <<"A", "Z">>)
    @@ (<<"A", "r", "k", "a", "n", "s", "a", "s">> :> <<"A", "R">>)
    @@ (<<"C", "a", "l", "i", "f", "o", "r", "n", "i", "a">> :> <<"C", "A">>)
    @@ (<<"C", "o", "l", "o", "r", "a", "d", "o">> :> <<"C", "O">>)
    @@ (<<"C", "o", "n", "n", "e", "c", "t", "i", "c", "u", "t">> :> <<"C", "T">>)
    @@ (<<"D", "e", "l", "a", "w", "a", "r", "e">> :> <<"D", "E">>)
    @@ (<<"D", "i", "s", "t", "r", "i", "c", "t", " ", "o", "f", " ", "C", "o", "l", "u", "m", "b", "i", "a">> :> <<"D", "C">>)
    @@ (<<"F", "l", "o", "r", "i", "d", "a">> :> <<"F", "L">>)
    @@ (<<"G", "e", "o", "r", "g", "i", "a">> :> <<"G", "A">>)
    @@ (<<"H", "a", "w", "a", "i", "i">> :> <<"H", "I">>)
    @@ (<<"I", "d", "a", "h", "o">> :> <<"I", "D">>)
    @@ (<<"I", "l", "l", "i", "n", "o", "i", "s">> :> <<"I", "L">>)
    @@ (<<"I", "n", "d", "i", "a", "n", "a">> :> <<"I", "N">>)
    @@ (<<"I", "o", "w", "a">> :> <<"I", "A">>)
    @@ (<<"K", "a", "n", "s", "a", "s">> :> <<"K", "S">>)
    @@ (<<"K", "e", "n", "t", "u", "c", "k", "y">> :> <<"K", "Y">>)
    @@ (<<"L", "o", "u", "i", "s", "i", "a", "n", "a">> :> <<"L", "A">>)
    @@ (<<"M", "a", "i", "n", "e">> :> <<"M", "E">>)
    @@ (<<"M", "a", "r", "y", "l", "a", "n", "d">> :> <<"M", "D">>)
    @@ (<<"M", "a", "s", "s", "a", "c", "h", "u", "s", "e", "t", "t", "s">> :> <<"M", "A">>)
    @@ (<<"M", "i", "c", "h", "i", "g", "a", "n">> :> <<"M", "I">>)
    @@ (<<"M", "i", "n", "n", "e", "s", "o", "t", "a">> :> <<"M", "N">>)
    @@ (<<"M", "i", "s", "s", "i", "s", "s", "i", "p", "p", "i">> :> <<"M", "S">>)
    @@ (<<"M", "i", "s", "s", "o", "u", "r", "i">> :> <<"M", "O">>)
    @@ (<<"M", "o", "n", "t", "a", "n", "a">> :> <<"M", "T">>)
    @@ (<<"N", "e", "b", "r", "a", "s", "k", "a">> :> <<"N", "E">>)
    @@ (<<"N", "e", "v", "a", "d", "a">> :> <<"N", "V">>)
    @@ (<<"N", "e", "w", " ", "H", "a", "m", "p", "s", "h", "i", "r", "e">> :> <<"N", "H">>)
    @@ (<<"N", "e", "w", " ", "J", "e", "r", "s", "e", "y">> :> <<"N", "J">>)
    @@ (<<"N", "e", "w", " ", "M", "e", "x", "i", "c", "o">> :> <<"N", "M">>)
    @@ (<<"N", "e", "w", " ", "Y", "o", "r", "k">> :> <<"N", "Y">>)
    @@ (<<"N", "o", "r", "t", "h", " ", "C", "a", "r", "o", "l", "i", "n", "a">> :> <<"N", "C">>)
    @@ (<<"N", "o", "r", "t", "h", " ", "D", "a", "k", "o", "t", "a">> :> <<"N", "D">>)
    @@ (<<"O", "h", "i", "o">> :> <<"O", "H">>)
    @@ (<<"O", "k", "l", "a", "h", "o", "m", "a">> :> <<"O", "K">>)
    @@ (<<"O", "r", "e", "g", "o", "n">> :> <<"O", "R">>)
    @@ (<<"P", "e", "n", "n", "s", "y", "l", "v", "a", "n", "i", "a">> :> <<"P", "A">>)
    @@ (<<"R", "h", "o", "d", "e", " ", "I", "s", "l", "a", "n", "d">> :> <<"R", "I">>)
    @@ (<<"S", "o", "u", "t", "h", " ", "C", "a", "r", "o", "l", "i", "n", "a">> :> <<"S", "C">>)
    @@ (<<"S", "o", "u", "t", "h", " ", "D", "a", "k", "o", "t", "a">> :> <<"S", "D">>)
    @@ (<<"T", "e", "n", "n", "e", "s", "s", "e", "e">> :> <<"T", "N">>)
    @@ (<<"T", "e", "x", "a", "s">> :> <<"T", "X">>)
    @@ (<<"U", "t", "a", "h">> :> <<"U", "T">>)
    @@ (<<"V", "e", "r", "m", "o", "n", "t">> :> <<"V", "T">>)
    @@ (<<"V", "i", "r", "g", "i", "n", "i", "a">> :> <<"V", "A">>)
    @@ (<<"W", "a", "s", "h", "i", "n", "g", "t", "o", "n">> :> <<"W", "A">>)
    @@ (<<"W", "e", "s", "t", " ", "V", "i", "r", "g", "i", "n", "i", "a">> :> <<"W", "V">>)
    @@ (<<"W", "i", "s", "c", "o", "n", "s", "i", "n">> :> <<"W", "I">>)
    @@ (<<"W", "y", "o", "m", "i", "n", "g">> :> <<"W", "Y">>)

COL_state_code == <<"s", "t", "a", "t", "e", "_", "c", "o", "d", "e">>

Info(message) == [shown |-> "info", message |-> message]
Handed(what, df) == [shown |-> what, rows |-> Len(df.rows)]
NotRun == [shown |-> "nothing"]

render_time_series(df) ==
    IF Empty(df) THEN Info("No data available for the selected filters.")
    ELSE Handed("line chart", df)

\* latest_grouped["state"].map(STATE_ABBR), then dropna(subset=["state_code"])
with_state_code(latest_grouped) ==
    LET Code(r) == LET s == Cell(latest_grouped, r, COL_state)
                   IN  IF s.t = "str" /\ s.v \in DOMAIN STATE_ABBR
                       THEN StrCell(STATE_ABBR[s.v]) ELSE NaN
    IN  dropna(SetColumn(latest_grouped, COL_state_code, Code), COL_state_code)

\* (mutant) the frame goes to the chart without the second emptiness test
render_choropleth_unchecked(base_df) ==
    LET latest_grouped == aggregate_for_map(base_df)
    IN  IF Empty(latest_grouped) THEN Info("No data available for the latest date.")
        ELSE Handed("choropleth", with_state_code(latest_grouped))

render_choropleth(base_df) ==
    LET latest_grouped == aggregate_for_map(base_df)
    IN  IF Empty(latest_grouped) THEN Info("No data available for the latest date.")
        ELSE IF Empty(with_state_code(latest_grouped))
             THEN Info("No state-level data available for the map.")
             ELSE Handed("choropleth", with_state_code(latest_grouped))

render_data_table(df) ==
    IF Empty(df) THEN Info("No rows match the selected filters.")
    ELSE Handed("table", df)

----------------------------------------------------------------------------
(* The dashboard.  DATA_URL answers in one of four ways; the files read    *)
(* are small tables with the columns of the CDC data set.                  *)

CsvHeader ==
    <<<<"S", "t", "a", "t", "e">>, <<"_", "Y", "e", "a", "r", "M", "o", "n", "t", "h">>, <<"A", "g", "e", "C", "a", "t", "e", "g", "o", "r", "y", "_", "L", "e", "g", "e", "n", "d">>, <<"S", "e", "x", "_", "L", "a", "b", "e", "l">>, <<"R", "a", "c", "e", "_", "L", "a", "b", "e", "l">>, <<"T", "y", "p", "e">>, <<"M", "o", "n", "t", "h", "l", "y", "R", "a", "t", "e">>>>

CsvRow(k, state, code, age, rate) ==
    [index |-> k,
     cells |-> <<state, code, StrCell(age), StrCell(<<"A", "l", "l">>), StrCell(<<"A", "l", "l">>),
                 StrCell(<<"C", "r", "u", "d", "e", " ", "R", "a", "t", "e">>), rate>>]

\* pd.read_csv(LOCAL_DATA_PATH): the snapshot; one row of it has no state
\* name, one has no rate
LOCAL_DATA ==
    [columns |-> CsvHeader,
     rows |-> << CsvRow(0, StrCell(<<"C", "O", "V", "I", "D", "-", "N", "E", "T">>), IntCell(202201), <<"A", "l", "l">>, FloatCell(50)),
                 CsvRow(1, StrCell(<<"C", "a", "l", "i", "f", "o", "r", "n", "i", "a">>), IntCell(202202), <<"A", "l", "l">>, FloatCell(70)),
                 CsvRow(2, NaN, IntCell(202202), <<"0", "-", "1", "7", " ", "y", "r">>, FloatCell(30)),
                 CsvRow(3, StrCell(<<"T", "e", "x", "a", "s">>), IntCell(202201), <<"A", "l", "l">>, NaN) >>]

\* pd.read_csv(DATA_URL) when the data set is served: the same months, newer rates
REMOTE_DATA ==
    [columns |-> CsvHeader,
     rows |-> << CsvRow(0, StrCell(<<"C", "O", "V", "I", "D", "-", "N", "E", "T">>), FloatCell(2022010), <<"A", "l", "l">>, FloatCell(60)),
                 CsvRow(1, StrCell(<<"C", "a", "l", "i", "f", "o", "r", "n", "i", "a">>), FloatCell(2022020), <<"A", "l", "l">>, FloatCell(80)),
                 CsvRow(2, NaN, FloatCell(2022020), <<"0", "-", "1", "7", " ", "y", "r">>, FloatCell(40)) >>]

\* pd.read_csv(DATA_URL) when the URL serves some other table (a moved data
\* set, an error report in CSV form): it parses, and has no _yearmonth column
OTHER_TABLE ==
    [columns |-> <<<<"e", "r", "r", "o", "r">>, <<"m", "e", "s", "s", "a", "g", "e">>>>,
     rows |-> << [index |-> 0, cells |-> <<IntCell(404), StrCell(<<"N", "o", "t", " ", "F", "o", "u", "n", "d">>)>>] >>]

\* how DATA_URL answers
RemoteAnswers == {"data set", "other table", "unreachable", "malformed"}

\* the body of fetch_remote_data: read_csv, any exception gives None
fetch_remote_data(answer) ==
    CASE answer = "data set" -> REMOTE_DATA
      [] answer = "other table" -> OTHER_TABLE
      [] answer = "unreachable" -> None        \* URLError, caught
      [] answer = "malformed" -> None          \* ParserError, caught

load_local_data == LOCAL_DATA

LocalLabel == "Local file (remote fetch failed)"

\* get_data, given what (the cached) fetch_remote_data returned
get_data(remote_df) ==
    IF remote_df # None
    THEN LET df == preprocess(remote_df)
         IN  IF Raised(df) THEN df
             ELSE [df |-> df, last_updated |-> "%Y-%m-%d %H:%M UTC"]
    ELSE LET df == preprocess(load_local_data)
         IN  IF Raised(df) THEN df
             ELSE [df |-> df, last_updated |-> LocalLabel]

----------------------------------------------------------------------------
(* One script run.  Streamlit runs main() from the top when the page is    *)
(* opened and after every interaction with a widget.                       *)

filter_config == FilterColumns

FILTERS == <<"f", "i", "l", "t", "e", "r", "s">>

widget_key(col) == <<"f", "i", "l", "t", "e", "r", "-">> \o col

FilterKeys == {filter_config[i] : i \in 1..Len(filter_config)}

\* df["date"].min() and .max(), on a frame that has dates
min_date(df) ==
    CHOOSE d \in unique(df, COL_date) : \A e \in unique(df, COL_date) : d.v <= e.v

\* the options a multiselect of the sidebar offers for col
options(df, date_range, col) ==
    LET df_for_options == apply_filters(df, date_range, <<>>)
    IN  {c.v : c \in {x \in unique(df_for_options, col) : ~IsNull(x)}}

\* selections.items(): the dict lists the columns in the order of filter_config
items(selections) ==
    [i \in 1..Len(filter_config) |-> <<filter_config[i], selections[filter_config[i]]>>]

\* What the user did to start the run:
\*   [type |-> "none"]                         opened the page, or asked for a rerun
\*   [type |-> "slider", value |-> <<lo, hi>>] moved the date-range slider
\*   [type |-> "select", col |-> c, vals |-> V] changed the multiselect of column c
\*   [type |-> "clear"]                        pressed "Clear all filters"

\* the date range the slider returns
slider(df, event) ==
    IF event.type = "slider" THEN event.value
    ELSE IF date_slider # None THEN date_slider
    ELSE <<min_date(df).v, max_date(df).v>>

\* what the multiselect of col returns.  "Clear all filters" empties the
\* widget keys and calls st.rerun(): the run that follows finds them empty.
multiselect(col, event) ==
    IF event.type = "clear" THEN {}
    ELSE IF event.type = "select" /\ event.col = col THEN event.vals
    ELSE IF widget_key(col) \in DOMAIN session_state THEN session_state[widget_key(col)]
    ELSE IF FILTERS \in DOMAIN session_state THEN session_state[FILTERS][col]
    ELSE {}

\* render_sidebar: the date range and the selections it returns
render_sidebar(df, event) ==
    [date_range |-> slider(df, event),
     selections |-> [col \in FilterKeys |-> multiselect(col, event)]]

\* st.session_state after render_sidebar
stored(selections) ==
    [k \in {FILTERS} \cup {widget_key(col) : col \in FilterKeys} |->
        IF k = FILTERS THEN selections
        ELSE selections[CHOOSE col \in FilterKeys : widget_key(col) = k]]

Crashed(kind) ==
    [exception |-> kind, warning |-> FALSE,
     time_series |-> NotRun, choropleth |-> NotRun, data_table |-> NotRun]

\* the canonical slice of the filtered data where it has rows, else the
\* filtered data
base_for_charts(filtered_full) ==
    IF ~Empty(canonical_slice(filtered_full)) THEN canonical_slice(filtered_full)
    ELSE filtered_full

\* main from the call of apply_filters on: the pages it may render
main(df_raw, date_range, selections) ==
    LET filtered_full == apply_filters(df_raw, date_range, items(selections))
    IN  IF Empty(filtered_full)
        THEN { [exception |-> None, warning |-> TRUE,
                time_series |-> NotRun, choropleth |-> NotRun, data_table |-> NotRun] }
        ELSE LET base_for_ts ==
                    restrict_initial_states(base_for_charts(filtered_full), selections)
             IN  IF Raised(base_for_ts) THEN {Crashed(base_for_ts.raised)}
                 ELSE { [exception |-> None, warning |-> FALSE,
                         time_series |-> render_time_series(ts_data),
                         choropleth |-> render_choropleth(base_for_charts(filtered_full)),
                         data_table |-> render_data_table(filtered_full)] :
                        ts_data \in aggregate_for_time_series(base_for_ts) }

\* A whole run of the script.  fetch_remote_data is read through its cache;
\* an exception of get_data ends the run before the sidebar is drawn.
Run(event) ==
    /\ cache' = [present |-> TRUE,
                 value |-> IF cache.present THEN cache.value ELSE fetch_remote_data(remote)]
    /\ loaded' = get_data(cache'.value)
    /\ IF Raised(loaded')
       THEN /\ view' = Crashed(loaded'.raised)
            /\ date_slider' = None
            /\ UNCHANGED session_state
       ELSE /\ date_slider' = render_sidebar(loaded'.df, event).date_range
            /\ session_state' = stored(render_sidebar(loaded'.df, event).selections)
            /\ \A col \in FilterKeys :
                    session_state'[FILTERS][col] \subseteq options(loaded'.df, date_slider', col)
            /\ view' \in main(loaded'.df, date_slider', session_state'[FILTERS])
    /\ UNCHANGED <<fn, arg, ret, ret2, remote>>

\* the sidebar is on the page: the last run got past get_data
SidebarShown == view # None /\ ~Raised(loaded)

OpenPage ==
    /\ view = None
    /\ Run([type |-> "none"])

Rerun ==
    /\ view # None
    /\ Run([type |-> "none"])

MoveSlider ==
    /\ SidebarShown
    /\ \E lo, hi \in {d.v : d \in unique(loaded.df, COL_date)} :
        /\ lo <= hi
        /\ <<lo, hi>> # date_slider
        /\ Run([type |-> "slider", value |-> <<lo, hi>>])

Select ==
    /\ SidebarShown
    /\ \E col \in FilterKeys :
        \E vals \in SUBSET options(loaded.df, date_slider, col) :
            /\ vals # session_state[FILTERS][col]
            /\ Run([type |-> "select", col |-> col, vals |-> vals])

ClearAll ==
    /\ SidebarShown
    /\ Run([type |-> "clear"])

\* an hour has passed since fetch_remote_data was computed: ttl=3600
Expire ==
    /\ cache.present
    /\ cache' = [present |-> FALSE]
    /\ UNCHANGED <<fn, arg, ret, ret2, remote, session_state, date_slider, loaded, view>>

\* the remote source starts to answer in another way
RemoteChanges ==
    /\ \E answer \in RemoteAnswers \ {remote} : remote' = answer
    /\ UNCHANGED <<fn, arg, ret, ret2, cache, session_state, date_slider, loaded, view>>

Init ==
    /\ fn = "main"
    /\ arg = None
    /\ ret = None
    /\ ret2 = None
    /\ remote \in RemoteAnswers
    /\ cache = [present |-> FALSE]
    /\ session_state = <<>>
    /\ date_slider = None
    /\ loaded = None
    /\ view = None

Next ==
    \/ OpenPage
    \/ Rerun
    \/ MoveSlider
    \/ Select
    \/ ClearAll
    \/ Expire
    \/ RemoteChanges

Spec == Init /\ [][Next]_vars

----------------------------------------------------------------------------
(* Claims about the dashboard *)

\* the remote source failed the run: the fetch gave nothing, or what it gave
\* cannot be preprocessed
RemoteFailed ==
    cache.present /\ (cache.value = None \/ Raised(preprocess(cache.value)))

\* C1 (as stated): however the remote source fails (network error, content
\* that does not parse, a response that cannot be preprocessed), get_data
\* raises nothing and returns the preprocessed local snapshot with the label
\* "Local file (remote fetch failed)".
C1_AsStated ==
    (loaded # None /\ RemoteFailed)
        => loaded = [df |-> preprocess(load_local_data), last_updated |-> LocalLabel]

\* the entries of the session state that hold a boolean
Flags == {k \in DOMAIN session_state : session_state[k] \in BOOLEAN}

\* C9 (as stated): the session state holds an "already refreshed" flag, false
\* when the session starts, that a forced refresh sets and that is never
\* reset, so that a session forces at most one refresh.
C9_AsStated ==
    \E k \in Flags : view = None => session_state[k] = FALSE

\* the filtered data of the last run, recomputed from what the run loaded and
\* what the sidebar holds
Filtered == apply_filters(loaded.df, date_slider, items(session_state[FILTERS]))

Stages == {"time_series", "choropleth", "data_table"}

\* the state names of STATE_ABBR that the rows of the latest date of df carry
MappedStates(df) ==
    LET latest == {j \in 1..Len(df.rows) : Cell(df, df.rows[j], COL_date) = max_date(df)}
    IN  {name \in DOMAIN STATE_ABBR :
            \E k \in latest : Cell(df, df.rows[k], COL_state) = StrCell(name)}

============================================================================
